---------------------------- MODULE Spec2Model ----------------------------
(***************************************************************************)
(* GuiPy widgets: the value-box protocol of guipy/widgets/core.py          *)
(* (get_box_value, set_box_value, get_modified_box_signal) and the         *)
(* editable entries box of guipy/widgets/entriesbox.py built on it.        *)
(*                                                                         *)
(* A widget is a record of its class and of the Qt properties the          *)
(* protocol reads and writes.  A Python value is a record [t, i, s]: its   *)
(* type, and its integer or string payload.  The grid layout of the        *)
(* entries box is its item list: a sequence of [w, row, col], indexed from *)
(* 0 by the operators that carry the names of the Qt calls.                *)
(*                                                                         *)
(* Widgets carry no identifier.  The instance of an item is followed over  *)
(* one operation by `origin`: for every item of the grid, the index the    *)
(* same widget instance had in the item list before the last operation,    *)
(* or -1 when that operation constructed it.  `closed` and `detached` are  *)
(* the indices (before the last operation) of the widgets it closed, and   *)
(* of those it took out of the grid and left open.  `call` is the last     *)
(* operation on the entries box, its argument and the error it raised.     *)
(*                                                                         *)
(* `widget` is a widget the protocol is applied to on its own, and `out`   *)
(* the outcome of the last protocol call on it.                            *)
(*                                                                         *)
(* `nodes` are the widgets of a tree of boxes, `parent` the parent of each *)
(* (0 for none), `connections` the signal connections childEvent has made, *)
(* in the order they were made, and `event` the last event in the tree     *)
(* with the signals it fired.                                              *)
(***************************************************************************)
EXTENDS Integers, Sequences, FiniteSets, TLC

\* Bound of the model: the highest grid row add_entry may use.  remove_entry
\* never renumbers the grid rows, so the row add_entry uses grows without limit.
MaxGridRow == 2

\* Bound of the model: the number of BaseBox objects in the tree of boxes
MaxBoxes == 3
\* The connections there can be when connect_box is called
MaxConnections == 3
\* The depth to which the slot of a box is followed into itself
MaxDepth == 2
\* The DataTable plugins that are made, and the tabs of one
MaxTables == 2
MaxTabs == 2

VARIABLES entry_types, banned_names, entries_grid, call, origin, closed, detached,
          widget, out,
          nodes, parent, connections, event,
          dual, dual_call,
          MENU_ACTIONS, TOOLBAR_ACTIONS, tab_widget, plugin_list, menus, toolbars

editor_vars == <<entry_types, banned_names, entries_grid, call, origin, closed, detached>>
box_vars == <<widget, out>>
tree_vars == <<nodes, parent, connections, event>>
dual_vars == <<dual, dual_call>>
plugin_vars == <<MENU_ACTIONS, TOOLBAR_ACTIONS, tab_widget, plugin_list, menus, toolbars>>
vars == <<editor_vars, box_vars, tree_vars, dual_vars, plugin_vars>>

---------------------------------------------------------------------------
\* Python values

NoneV == [t |-> "none", i |-> 0, s |-> ""]
IntV(n) == [t |-> "int", i |-> n, s |-> ""]
StrV(x) == [t |-> "str", i |-> 0, s |-> x]
BoolV(b) == [t |-> "bool", i |-> IF b THEN 1 ELSE 0, s |-> ""]

\* isinstance(value, int): a Python bool is an int
IsInt(v) == v.t \in {"int", "bool"}
IsStr(v) == v.t = "str"

---------------------------------------------------------------------------
\* Widget classes, by the base class the protocol's isinstance chain tests

SpinBoxes == {"QSpinBox"}
Buttons == {"QToolButton", "QCheckBox"}
ComboBoxes == {"QComboBox", "EditableComboBox"}
LineEdits == {"QLineEdit"}
WLabels == {"QW_QLabel"}
Labels == {"QLabel"} \cup WLabels
BaseBoxes == {"BaseBox", "GenericBox"}
OtherWidgets == {"QWidget", "QFrame"}

NewWidget(cls) ==
    [cls |-> cls, num |-> 0, text |-> "", checkable |-> (cls = "QCheckBox"),
     checked |-> FALSE, items |-> <<>>, index |-> -1, media |-> "none",
     held |-> NoneV]

Ret(v) == [err |-> "none", val |-> v]
Raise(e) == [err |-> e, val |-> NoneV]

\* The generic fallback editor: it holds the value it was given.
GenericBox_get_box_value(box) == Ret(box.held)

GenericBox_set_box_value(box, value) ==
    [err |-> "none", box |-> [box EXCEPT !.held = value],
     changed |-> box.held # value]

\* BaseBox.get_box_value(self, value_sig=None): the base raises, a subclass
\* overrides it.  The base takes one type at most: box.get_box_value(*value_sig)
\* with two is a TypeError of the call.
BaseBox_get_box_value(box, value_sig) ==
    IF box.cls = "GenericBox" THEN GenericBox_get_box_value(box)
    ELSE IF Cardinality(value_sig) > 1 THEN Raise("TypeError")
    ELSE Raise("NotImplementedError")

BaseBox_set_box_value(box, value) ==
    IF box.cls = "GenericBox" THEN GenericBox_set_box_value(box, value)
    ELSE [err |-> "NotImplementedError", box |-> box, changed |-> FALSE]

\* get_box_value that gives the checked state of every checkable button,
\* whatever the types given
get_box_value_checked_always(box, value_sig) ==
    IF box.cls \in SpinBoxes THEN Ret(IntV(box.num))
    ELSE IF box.cls \in Buttons THEN
        IF box.checkable THEN Ret(BoolV(box.checked)) ELSE Ret(StrV(box.text))
    ELSE IF box.cls \in ComboBoxes THEN
        IF "int" \in value_sig THEN Ret(IntV(box.index)) ELSE Ret(StrV(box.text))
    ELSE IF box.cls \in LineEdits THEN Ret(StrV(box.text))
    ELSE IF box.cls \in Labels THEN
        IF box.media # "none" THEN Ret([t |-> box.media, i |-> 0, s |-> ""])
        ELSE Ret(StrV(box.text))
    ELSE IF box.cls \in BaseBoxes THEN BaseBox_get_box_value(box, value_sig)
    ELSE Raise("NotImplementedError")

\* get_box_value(box, *value_sig); value_sig is the set of the types given
get_box_value(box, value_sig) ==
    IF box.cls \in SpinBoxes THEN Ret(IntV(box.num))
    ELSE IF box.cls \in Buttons THEN
        IF box.checkable /\ "str" \notin value_sig
        THEN Ret(BoolV(box.checked)) ELSE Ret(StrV(box.text))
    ELSE IF box.cls \in ComboBoxes THEN
        IF "int" \in value_sig THEN Ret(IntV(box.index)) ELSE Ret(StrV(box.text))
    ELSE IF box.cls \in LineEdits THEN Ret(StrV(box.text))
    ELSE IF box.cls \in Labels THEN
        IF box.media # "none" THEN Ret([t |-> box.media, i |-> 0, s |-> ""])
        ELSE Ret(StrV(box.text))
    ELSE IF box.cls \in BaseBoxes THEN BaseBox_get_box_value(box, value_sig)
    ELSE Raise("NotImplementedError")

\* findText that counts the items from 1
findText_from_one(items, text) ==
    IF \E k \in 1..Len(items) : items[k] = text
    THEN CHOOSE k \in 1..Len(items) :
             items[k] = text /\ \A j \in 1..(k - 1) : items[j] # text
    ELSE -1

\* QComboBox.findText: the 0-based index of the first item equal to text, or -1
findText(items, text) ==
    IF \E k \in 1..Len(items) : items[k] = text
    THEN (CHOOSE k \in 1..Len(items) :
              items[k] = text /\ \A j \in 1..(k - 1) : items[j] # text) - 1
    ELSE -1

\* QComboBox.setCurrentIndex: an index out of range selects nothing
setCurrentIndex(box, n) ==
    IF n >= 0 /\ n < Len(box.items)
    THEN [box EXCEPT !.index = n, !.text = box.items[n + 1]]
    ELSE [box EXCEPT !.index = -1, !.text = ""]

\* QComboBox.setCurrentText: the edit text of an editable box; the matching
\* item, if any, of one that is not
setCurrentText(box, text) ==
    IF box.cls = "EditableComboBox" THEN [box EXCEPT !.text = text]
    ELSE IF findText(box.items, text) # -1
    THEN setCurrentIndex(box, findText(box.items, text))
    ELSE box

\* QSpinBox.setValue keeps the value within the default range 0..99
setValue(box, n) ==
    [box EXCEPT !.num = IF n < 0 THEN 0 ELSE IF n > 99 THEN 99 ELSE n]

Done(old, new) == [err |-> "none", box |-> new, changed |-> new # old]
Fail(box, e) == [err |-> e, box |-> box, changed |-> FALSE]

\* set_box_value(box, value).  The Qt setters take one type each: the binding
\* raises TypeError for another.
set_box_value(box, value) ==
    IF box.cls \in SpinBoxes THEN
        IF IsInt(value) THEN Done(box, setValue(box, value.i))
        ELSE Fail(box, "TypeError")
    ELSE IF box.cls \in Buttons THEN
        IF IsStr(value) THEN Done(box, [box EXCEPT !.text = value.s])
        ELSE IF IsInt(value)
        THEN Done(box, [box EXCEPT !.checked = box.checkable /\ value.i # 0])
        ELSE Fail(box, "TypeError")
    ELSE IF box.cls \in ComboBoxes THEN
        IF IsInt(value) THEN Done(box, setCurrentIndex(box, value.i))
        ELSE IF ~IsStr(value) THEN Fail(box, "TypeError")
        ELSE IF findText(box.items, value.s) # -1
        THEN Done(box, setCurrentIndex(box, findText(box.items, value.s)))
        ELSE Done(box, setCurrentText(box, value.s))
    ELSE IF box.cls \in LineEdits THEN
        IF IsStr(value) THEN Done(box, [box EXCEPT !.text = value.s])
        ELSE Fail(box, "TypeError")
    ELSE IF box.cls \in Labels THEN
        IF IsStr(value)
        THEN Done(box, [box EXCEPT !.text = value.s, !.media = "none"])
        ELSE IF IsInt(value)
        THEN Done(box, [box EXCEPT !.text = ToString(value.i), !.media = "none"])
        ELSE IF value.t \in {"movie", "picture", "pixmap"}
        THEN Done(box, [box EXCEPT !.media = value.t, !.text = ""])
        ELSE Fail(box, "TypeError")
    ELSE IF box.cls \in BaseBoxes THEN BaseBox_set_box_value(box, value)
    ELSE Fail(box, "NotImplementedError")

\* get_modified_box_signal with a last branch that takes any other widget for
\* a box with a modified signal
get_modified_box_signal_fallback(w, signal_sig) ==
    IF w.cls \in SpinBoxes THEN Ret(StrV("valueChanged"))
    ELSE IF w.cls \in Buttons THEN
        IF w.checkable THEN Ret(StrV("toggled")) ELSE Ret(StrV("clicked"))
    ELSE IF w.cls \in ComboBoxes THEN
        IF "int" \in signal_sig THEN Ret(StrV("currentIndexChanged"))
        ELSE Ret(StrV("currentTextChanged"))
    ELSE IF w.cls \in LineEdits THEN Ret(StrV("textChanged"))
    ELSE IF w.cls \in WLabels THEN Ret(StrV("contentsChanged"))
    ELSE IF w.cls \in Labels THEN Raise("NotImplementedError")
    ELSE Ret(StrV("modified"))

\* get_modified_box_signal that tests for QLabel before it tests for QW_QLabel
get_modified_box_signal_label_first(w, signal_sig) ==
    IF w.cls \in SpinBoxes THEN Ret(StrV("valueChanged"))
    ELSE IF w.cls \in Buttons THEN
        IF w.checkable THEN Ret(StrV("toggled")) ELSE Ret(StrV("clicked"))
    ELSE IF w.cls \in ComboBoxes THEN
        IF "int" \in signal_sig THEN Ret(StrV("currentIndexChanged"))
        ELSE Ret(StrV("currentTextChanged"))
    ELSE IF w.cls \in LineEdits THEN Ret(StrV("textChanged"))
    ELSE IF w.cls \in Labels THEN Raise("NotImplementedError")
    ELSE IF w.cls \in WLabels THEN Ret(StrV("contentsChanged"))
    ELSE IF w.cls \in BaseBoxes THEN Ret(StrV("modified"))
    ELSE Raise("NotImplementedError")

\* get_modified_box_signal that gives the signal of the index of a combobox
\* unless str is among the types given
get_modified_box_signal_index_default(w, signal_sig) ==
    IF w.cls \in SpinBoxes THEN Ret(StrV("valueChanged"))
    ELSE IF w.cls \in Buttons THEN
        IF w.checkable THEN Ret(StrV("toggled")) ELSE Ret(StrV("clicked"))
    ELSE IF w.cls \in ComboBoxes THEN
        IF "str" \notin signal_sig THEN Ret(StrV("currentIndexChanged"))
        ELSE Ret(StrV("currentTextChanged"))
    ELSE IF w.cls \in LineEdits THEN Ret(StrV("textChanged"))
    ELSE IF w.cls \in WLabels THEN Ret(StrV("contentsChanged"))
    ELSE IF w.cls \in Labels THEN Raise("NotImplementedError")
    ELSE IF w.cls \in BaseBoxes THEN Ret(StrV("modified"))
    ELSE Raise("NotImplementedError")

\* get_modified_box_signal(box, *signal_sig): the name of the signal
get_modified_box_signal(w, signal_sig) ==
    IF w.cls \in SpinBoxes THEN Ret(StrV("valueChanged"))
    ELSE IF w.cls \in Buttons THEN
        IF w.checkable THEN Ret(StrV("toggled")) ELSE Ret(StrV("clicked"))
    ELSE IF w.cls \in ComboBoxes THEN
        IF "int" \in signal_sig THEN Ret(StrV("currentIndexChanged"))
        ELSE Ret(StrV("currentTextChanged"))
    ELSE IF w.cls \in LineEdits THEN Ret(StrV("textChanged"))
    ELSE IF w.cls \in WLabels THEN Ret(StrV("contentsChanged"))
    ELSE IF w.cls \in Labels THEN Raise("NotImplementedError")
    ELSE IF w.cls \in BaseBoxes THEN Ret(StrV("modified"))
    ELSE Raise("NotImplementedError")

---------------------------------------------------------------------------
\* The grid layout (QGridLayout) of the entries box

Item(w, row, col) == [w |-> w, row |-> row, col |-> col]

RemoveAt(s, k) == [j \in 1..(Len(s) - 1) |-> IF j < k THEN s[j] ELSE s[j + 1]]

\* The state an operation of the entries box works on
Editor(grid) ==
    [grid |-> grid, origin |-> [k \in 1..Len(grid) |-> k - 1],
     closed |-> {}, detached |-> {}, err |-> "none"]

itemAt(grid, i) == grid[i + 1]

\* QGridLayout.itemAtPosition: the index of the first item at (row, col), or -1
itemAtPosition(grid, row, col) ==
    IF \E k \in 1..Len(grid) : grid[k].row = row /\ grid[k].col = col
    THEN (CHOOSE k \in 1..Len(grid) :
              /\ grid[k].row = row /\ grid[k].col = col
              /\ \A j \in 1..(k - 1) : ~(grid[j].row = row /\ grid[j].col = col)) - 1
    ELSE -1

\* QGridLayout.addWidget / addItem: the item goes to the end of the item list
addItem(E, w, from, row, col) ==
    [E EXCEPT !.grid = Append(@, Item(w, row, col)),
              !.origin = Append(@, from)]

\* QGridLayout.takeAt(i): the item leaves the list, its widget stays open
takeAt(E, i) ==
    [E EXCEPT !.grid = RemoveAt(@, i + 1), !.origin = RemoveAt(@, i + 1)]

\* item = itemAt(i); item.widget().close(): the item stays in the list
closeAt_keep(E, i) ==
    [E EXCEPT !.closed = @ \cup ({E.origin[i + 1]} \ {-1})]

\* item = takeAt(i); item.widget().close()
closeAt(E, i) ==
    [takeAt(E, i) EXCEPT !.closed = @ \cup ({E.origin[i + 1]} \ {-1})]

\* entryCount
entryCount(grid) == (Len(grid) \div 3) - 1

\* init: the header row
init_grid ==
    << Item([NewWidget("QLabel") EXCEPT !.text = ""], 0, 0),
       Item([NewWidget("QLabel") EXCEPT !.text = "Entry name"], 0, 1),
       Item([NewWidget("QLabel") EXCEPT !.text = "Entry value"], 0, 2) >>

\* add_entry.  The name box lists the keys of entry_types; the list is left
\* out of the widget here: set_box_value on an editable box ends with the
\* given text as its current text whether or not the text is listed.
add_entry(E) ==
    LET name_box == set_box_value(NewWidget("EditableComboBox"), IntV(-1)).box
        del_but == NewWidget("QToolButton")
        next_row == itemAt(E.grid, Len(E.grid) - 1).row + 1
    IN addItem(addItem(addItem(E, del_but, -1, next_row, 0),
                       name_box, -1, next_row, 1),
               NewWidget("QWidget"), -1, next_row, 2)

\* remove_entry that takes the three items from index on
remove_entry_from_index(E, index) ==
    IF index + 2 < Len(E.grid)
    THEN closeAt(closeAt(closeAt(E, index), index), index)
    ELSE closeAt(closeAt(E, index), index)

\* remove_entry(name_box); index is indexOf(name_box)
remove_entry(E, index) ==
    closeAt(closeAt(closeAt(E, index - 1), index - 1), index - 1)

\* The selection of create_value_box without the generic box: a name that is
\* no key of entry_types gets the empty widget
new_box_class_no_fallback(types, entry_name) ==
    IF entry_name # "" /\ entry_name \in DOMAIN types
    THEN types[entry_name]
    ELSE "QWidget"

\* The class create_value_box selects for an entry name
new_box_class(types, entry_name) ==
    IF entry_name # ""
    THEN IF entry_name \in DOMAIN types THEN types[entry_name] ELSE "GenericBox"
    ELSE "QWidget"

\* create_value_box that replaces the value box whatever its type
create_value_box_always(E, index, types) ==
    LET entry_name == get_box_value(itemAt(E.grid, index).w, {}).val.s
        cls == new_box_class(types, entry_name)
    IN [E EXCEPT !.grid[index + 2].w = NewWidget(cls),
                 !.origin[index + 2] = -1,
                 !.closed = @ \cup ({E.origin[index + 2]} \ {-1})]

\* create_value_box(name_box); index is indexOf(name_box)
create_value_box(E, index, types) ==
    LET entry_name == get_box_value(itemAt(E.grid, index).w, {}).val.s
        cur_box == itemAt(E.grid, index + 1).w
        cls == new_box_class(types, entry_name)
    IN IF cur_box.cls # cls
       THEN [E EXCEPT !.grid[index + 2].w = NewWidget(cls),
                      !.origin[index + 2] = -1,
                      !.closed = @ \cup ({E.origin[index + 2]} \ {-1})]
       ELSE E

\* Setting the text of the name box at index: currentTextChanged, connected
\* to create_value_box in add_entry, is emitted when the text changes
set_name(E, index, name, types) ==
    LET r == set_box_value(itemAt(E.grid, index).w, StrV(name))
        E1 == [E EXCEPT !.grid[index + 1].w = r.box]
    IN IF r.changed THEN create_value_box(E1, index, types) ELSE E1

Restrict(f, S) == [x \in S |-> f[x]]

\* addBannedNames without the discard of the empty string
addBannedNames_keep_empty(types, banned, names) ==
    LET banned_types == names \cap DOMAIN types
    IN [banned_names |-> banned \cup names,
        entry_types |-> Restrict(types, DOMAIN types \ banned_types)]

\* addBannedNames: the new banned_names and entry_types
addBannedNames(types, banned, names) ==
    LET new == names \ {""}
        banned_types == new \cap DOMAIN types
    IN [banned_names |-> banned \cup new,
        entry_types |-> Restrict(types, DOMAIN types \ banned_types)]

\* addEntryTypes without the removal of the banned names
addEntryTypes_keep_banned(types, banned, arg) ==
    Restrict(arg, DOMAIN arg \ {""}) @@ types

\* addEntryTypes: the new entry_types
addEntryTypes(types, banned, arg) ==
    LET a1 == Restrict(arg, DOMAIN arg \ {""})
        banned_types == banned \cap DOMAIN a1
        a2 == Restrict(a1, DOMAIN a1 \ banned_types)
    IN a2 @@ types

\* get_box_value that passes over an entry whose value box cannot be read
RECURSIVE get_entries_skip_failed(_, _, _)
get_entries_skip_failed(grid, i, acc) ==
    IF i >= 3 * (entryCount(grid) + 1) THEN acc
    ELSE LET entry_name == get_box_value(itemAt(grid, i + 1).w, {}).val.s
             r == get_box_value(itemAt(grid, i + 2).w, {})
         IN IF entry_name = ""
            THEN get_entries_skip_failed(grid, i + 3,
                                         [acc EXCEPT !.reads = @ \cup {i + 1}])
            ELSE IF r.err # "none"
            THEN get_entries_skip_failed(
                     grid, i + 3, [acc EXCEPT !.reads = @ \cup {i + 1, i + 2}])
            ELSE get_entries_skip_failed(
                     grid, i + 3,
                     [acc EXCEPT !.reads = @ \cup {i + 1, i + 2},
                                 !.dict = (entry_name :> r.val) @@ @])

\* get_box_value that keeps the first value it finds for a name
RECURSIVE get_entries_first_wins(_, _, _)
get_entries_first_wins(grid, i, acc) ==
    IF i >= 3 * (entryCount(grid) + 1) \/ acc.err # "none" THEN acc
    ELSE LET entry_name == get_box_value(itemAt(grid, i + 1).w, {}).val.s
             r == get_box_value(itemAt(grid, i + 2).w, {})
         IN IF entry_name = ""
            THEN get_entries_first_wins(grid, i + 3,
                                        [acc EXCEPT !.reads = @ \cup {i + 1}])
            ELSE IF r.err # "none"
            THEN [acc EXCEPT !.reads = @ \cup {i + 1, i + 2}, !.err = r.err]
            ELSE get_entries_first_wins(
                     grid, i + 3,
                     [acc EXCEPT !.reads = @ \cup {i + 1, i + 2},
                                 !.dict = @ @@ (entry_name :> r.val)])

\* EditableEntriesBox.get_box_value, from item i on: the dict, the indices of
\* the items whose widget was read, the error raised
RECURSIVE get_entries(_, _, _)
get_entries(grid, i, acc) ==
    IF i >= 3 * (entryCount(grid) + 1) \/ acc.err # "none" THEN acc
    ELSE LET entry_name == get_box_value(itemAt(grid, i + 1).w, {}).val.s
             r == get_box_value(itemAt(grid, i + 2).w, {})
         IN IF entry_name = ""
            THEN get_entries(grid, i + 3,
                             [acc EXCEPT !.reads = @ \cup {i + 1}])
            ELSE IF r.err # "none"
            THEN [acc EXCEPT !.reads = @ \cup {i + 1, i + 2}, !.err = r.err]
            ELSE get_entries(grid, i + 3,
                             [acc EXCEPT !.reads = @ \cup {i + 1, i + 2},
                                         !.dict = (entry_name :> r.val) @@ @])

\* get_box_value that reads the value box before it looks at the name
RECURSIVE get_entries_value_first(_, _, _)
get_entries_value_first(grid, i, acc) ==
    IF i >= 3 * (entryCount(grid) + 1) \/ acc.err # "none" THEN acc
    ELSE LET entry_name == get_box_value(itemAt(grid, i + 1).w, {}).val.s
             r == get_box_value(itemAt(grid, i + 2).w, {})
             acc1 == [acc EXCEPT !.reads = @ \cup {i + 1, i + 2}]
         IN IF r.err # "none" THEN [acc1 EXCEPT !.err = r.err]
            ELSE IF entry_name = ""
            THEN get_entries_value_first(grid, i + 3, acc1)
            ELSE get_entries_value_first(
                     grid, i + 3,
                     [acc1 EXCEPT !.dict = (entry_name :> r.val) @@ @])

EmptyDict == [x \in {} |-> NoneV]

EEB_get_box_value_value_first(grid) ==
    get_entries_value_first(
        grid, 3, [dict |-> EmptyDict, reads |-> {}, err |-> "none"])

EEB_get_box_value(grid) ==
    get_entries(grid, 3, [dict |-> EmptyDict, reads |-> {}, err |-> "none"])

\* A mapping given to set_box_value: a sequence of [name, value], the names
\* distinct, in the iteration order of the dict
Keys(m) == {m[k].name : k \in 1..Len(m)}

AsDict(m) ==
    [x \in Keys(m) |-> m[CHOOSE k \in 1..Len(m) : m[k].name = x].value]

Origins(cells) == {cells[k].from : k \in 1..Len(cells)} \ {-1}

\* set_box_value, first loop (n passes left): every entry is removed, or
\* taken out of the grid and kept in cur_entries_dict under its name
RECURSIVE take_entries(_, _, _, _, _)
take_entries(E, cur, n, m, banned) ==
    IF n = 0 THEN [E |-> E, cur |-> cur]
    ELSE LET entry_name == get_box_value(itemAt(E.grid, 4).w, {}).val.s
         IN IF entry_name \notin Keys(m) \/ entry_name = ""
                \/ entry_name \in banned
            THEN take_entries(remove_entry(E, 4), cur, n - 1, m, banned)
            ELSE LET cells == [c \in 1..3 |->
                                  [w |-> E.grid[3 + c].w, from |-> E.origin[3 + c]]]
                     lost == IF entry_name \in DOMAIN cur
                             THEN Origins(cur[entry_name]) ELSE {}
                     E1 == takeAt(takeAt(takeAt(E, 3), 3), 3)
                 IN take_entries([E1 EXCEPT !.detached = @ \cup lost],
                                 (entry_name :> cells) @@ cur, n - 1, m, banned)

\* The cells still in cur_entries_dict when set_box_value is left
Leftover(cur) == UNION {Origins(cur[x]) : x \in DOMAIN cur}
\* The cells held under entry_name go back into the grid at row
put_back(E, cells, row) ==
    addItem(addItem(addItem(E, cells[1].w, cells[1].from, row, 0),
                    cells[2].w, cells[2].from, row, 1),
            cells[3].w, cells[3].from, row, 2)

\* A new entry whose create_value_box is queued: the name is set, the value
\* box is made after set_box_value has returned
new_entry_queued(E, row, entry_name, types) ==
    LET E1 == add_entry(E)
        p == itemAtPosition(E1.grid, row, 1)
    IN IF p = -1 THEN [E1 EXCEPT !.err = "AttributeError"]
       ELSE [E1 EXCEPT !.grid[p + 1].w =
                           set_box_value(itemAt(E1.grid, p).w, StrV(entry_name)).box]

\* A new entry for entry_name: add_entry, then the name of the name box that
\* itemAtPosition(row, 1) finds is set
new_entry(E, row, entry_name, types) ==
    LET E1 == add_entry(E)
        p == itemAtPosition(E1.grid, row, 1)
    IN IF p = -1 THEN [E1 EXCEPT !.err = "AttributeError"]
       ELSE set_name(E1, p, entry_name, types)

\* set_box_value(value_box, entry_value) on the widget of column 1, the name box
set_entry_value_name_column(E, row, value) ==
    LET p == itemAtPosition(E.grid, row, 1)
        r == set_box_value(itemAt(E.grid, p).w, value)
    IN IF E.err # "none" THEN E
       ELSE IF p = -1 THEN [E EXCEPT !.err = "AttributeError"]
       ELSE IF r.err # "none" THEN [E EXCEPT !.err = r.err]
       ELSE [E EXCEPT !.grid[p + 1].w = r.box]

\* set_box_value(value_box, entry_value) on the widget itemAtPosition(row, 2) finds
set_entry_value(E, row, value) ==
    LET p == itemAtPosition(E.grid, row, 2)
        r == set_box_value(itemAt(E.grid, p).w, value)
    IN IF E.err # "none" THEN E
       ELSE IF p = -1 THEN [E EXCEPT !.err = "AttributeError"]
       ELSE IF r.err # "none" THEN [E EXCEPT !.err = r.err]
       ELSE [E EXCEPT !.grid[p + 1].w = r.box]

\* set_box_value whose second loop closes the cells it still holds at its end
RECURSIVE put_entries_close_held(_, _, _, _, _)
put_entries_close_held(E, cur, m, row, types) ==
    IF E.err # "none" \/ row > Len(m)
    THEN [E EXCEPT !.closed = @ \cup Leftover(cur)]
    ELSE LET entry_name == m[row].name
             E1 == IF entry_name \in DOMAIN cur
                   THEN put_back(E, cur[entry_name], row)
                   ELSE new_entry(E, row, entry_name, types)
         IN put_entries_close_held(set_entry_value(E1, row, m[row].value),
                                   Restrict(cur, DOMAIN cur \ {entry_name}),
                                   m, row + 1, types)

\* set_box_value, second loop, from the pair at row on.  An error ends it;
\* the cells still held are then lost with cur_entries_dict.
RECURSIVE put_entries(_, _, _, _, _)
put_entries(E, cur, m, row, types) ==
    IF E.err # "none" \/ row > Len(m)
    THEN [E EXCEPT !.detached = @ \cup Leftover(cur)]
    ELSE LET entry_name == m[row].name
             E1 == IF entry_name \in DOMAIN cur
                   THEN put_back(E, cur[entry_name], row)
                   ELSE new_entry(E, row, entry_name, types)
         IN put_entries(set_entry_value(E1, row, m[row].value),
                        Restrict(cur, DOMAIN cur \ {entry_name}),
                        m, row + 1, types)

EmptyCur == [x \in {} |-> <<>>]

\* set_box_value without the first loop: the entries in the box stay
EEB_set_box_value_no_clear(E, m, types, banned) ==
    put_entries(E, EmptyCur, m, 1, types)

\* set_box_value that walks entries_dict from its last pair to its first
EEB_set_box_value_reversed(E, m, types, banned) ==
    LET t == take_entries(E, EmptyCur, entryCount(E.grid), m, banned)
    IN put_entries(t.E, t.cur, [k \in 1..Len(m) |-> m[Len(m) + 1 - k]], 1, types)

\* set_box_value that removes every entry and builds every row anew
EEB_set_box_value_rebuild(E, m, types, banned) ==
    LET t == take_entries(E, EmptyCur, entryCount(E.grid), <<>>, banned)
    IN put_entries(t.E, EmptyCur, m, 1, types)

\* EditableEntriesBox.set_box_value(entries_dict)
EEB_set_box_value(E, m, types, banned) ==
    LET t == take_entries(E, EmptyCur, entryCount(E.grid), m, banned)
    IN put_entries(t.E, t.cur, m, 1, types)

---------------------------------------------------------------------------
\* A tree of boxes: BaseBox.childEvent and the signals it connects

\* The nodes: MaxBoxes BaseBox objects and one widget of any class
Composites == 1..MaxBoxes
Leaf == MaxBoxes + 1
TreeNodes == Composites \cup {Leaf}

Connection(child, sig, to) == [child |-> child, sig |-> sig, to |-> to]

\* BaseBox.childEvent without the try: the error of a child without a
\* modified signal ends the handler
BaseBox_childEvent_no_catch(conns, self, child, type, w) ==
    IF type = "ChildAdded"
    THEN LET r == get_modified_box_signal(w, {})
         IN IF r.err # "none"
            THEN [connections |-> conns, err |-> r.err, base |-> FALSE]
            ELSE [connections |-> Append(conns, Connection(child, r.val.s, self)),
                  err |-> "none", base |-> TRUE]
    ELSE [connections |-> conns, err |-> "none", base |-> TRUE]

\* BaseBox.childEvent that leaves out the children that are a BaseBox
BaseBox_childEvent_widgets_only(conns, self, child, type, w) ==
    IF type = "ChildAdded"
    THEN LET r == get_modified_box_signal(w, {})
         IN IF r.err = "NotImplementedError" \/ w.cls \in BaseBoxes
            THEN [connections |-> conns, err |-> "none", base |-> TRUE]
            ELSE IF r.err # "none"
            THEN [connections |-> conns, err |-> r.err, base |-> FALSE]
            ELSE [connections |-> Append(conns, Connection(child, r.val.s, self)),
                  err |-> "none", base |-> TRUE]
    ELSE [connections |-> conns, err |-> "none", base |-> TRUE]

\* BaseBox.childEvent(event) of box self, for the child w at node child: the
\* connections after it, the error it raised, whether it called the handler
\* of the base class
BaseBox_childEvent(conns, self, child, type, w) ==
    IF type = "ChildAdded"
    THEN LET r == get_modified_box_signal(w, {})
         IN IF r.err = "NotImplementedError"
            THEN [connections |-> conns, err |-> "none", base |-> TRUE]
            ELSE IF r.err # "none"
            THEN [connections |-> conns, err |-> r.err, base |-> FALSE]
            ELSE [connections |-> Append(conns, Connection(child, r.val.s, self)),
                  err |-> "none", base |-> TRUE]
    ELSE [connections |-> conns, err |-> "none", base |-> TRUE]

\* BaseBox.connect_box(box) of box self, for the widget w at node box: the
\* connections after it and the error it raised
BaseBox_connect_box(conns, self, box, par, w) ==
    IF par[box] = self THEN [connections |-> conns, err |-> "none"]
    ELSE LET r == get_modified_box_signal(w, {})
         IN IF r.err # "none" THEN [connections |-> conns, err |-> r.err]
            ELSE [connections |-> Append(conns, Connection(box, r.val.s, self)),
                  err |-> "none"]

\* The signals a widget emits when it goes from old to new
Fired(old, new) ==
    (IF old.cls \in SpinBoxes /\ new.num # old.num THEN {"valueChanged"} ELSE {})
    \cup (IF old.cls \in Buttons /\ new.checked # old.checked
          THEN {"toggled"} ELSE {})
    \cup (IF old.cls \in ComboBoxes /\ new.index # old.index
          THEN {"currentIndexChanged"} ELSE {})
    \cup (IF old.cls \in ComboBoxes /\ new.text # old.text
          THEN {"currentTextChanged"} ELSE {})
    \cup (IF old.cls \in LineEdits /\ new.text # old.text
          THEN {"textChanged"} ELSE {})

\* A click on a button: a checkable button changes its checked state
click(w) == IF w.checkable THEN [w EXCEPT !.checked = ~w.checked] ELSE w

\* The number of times box n emits modified when the widget at node src emits
\* the signals fired: once for every connection to n.modified of a signal
\* that is emitted, those of the modified of other boxes included.  From
\* connection k on.
RECURSIVE Emits(_, _, _, _, _)
Emits(conns, k, n, src, fired) ==
    IF k > Len(conns) THEN 0
    ELSE (IF conns[k].to # n THEN 0
          ELSE IF conns[k].child = src
          THEN (IF conns[k].sig \in fired THEN 1 ELSE 0)
          ELSE IF conns[k].sig = "modified"
          THEN Emits(conns, 1, conns[k].child, src, fired)
          ELSE 0)
         + Emits(conns, k + 1, n, src, fired)

NoEvent ==
    [op |-> "none", node |-> 0, to |-> 0, type |-> "none", fired |-> {},
     emitted |-> [a \in Composites |-> 0], base |-> FALSE, err |-> "none"]

\* No tree: the boxes have no parent and no child
NoTree(leaf) ==
    /\ nodes = [n \in TreeNodes |->
                   IF n \in Composites THEN NewWidget("BaseBox") ELSE leaf]
    /\ parent = [n \in TreeNodes |-> 0]
    /\ connections = <<>>
    /\ event = NoEvent

---------------------------------------------------------------------------
\* DualComboBox

\* modified = QC.Signal([], [int, int], [int, str], [str, int], [str, str])
Overloads ==
    << <<>>, <<"int", "int">>, <<"int", "str">>, <<"str", "int">>,
       <<"str", "str">> >>

\* The list of types modified_signal_slot walks
SlotTypes ==
    << <<"int", "int">>, <<"int", "str">>, <<"str", "int">>, <<"str", "str">> >>

\* BaseBox.__init__ that connects every overload of modified to the slot
BaseBox_init_every_overload(overloads, has_slot) ==
    IF has_slot THEN {overloads[k] : k \in 1..Len(overloads)} ELSE {}

\* BaseBox.__init__: self.modified, the first overload, is connected to
\* modified_signal_slot if the class has one.  The overloads connected to it.
BaseBox_init(overloads, has_slot) ==
    IF has_slot THEN {overloads[1]} ELSE {}

\* DualComboBox.__init__ and init: the two comboboxes, empty, become children
\* of the box through its layout
DualComboBox_init(editable) ==
    LET left_box == NewWidget(IF editable[1] THEN "EditableComboBox" ELSE "QComboBox")
        right_box == NewWidget(IF editable[2] THEN "EditableComboBox" ELSE "QComboBox")
        c1 == BaseBox_childEvent(<<>>, "self", "left_box", "ChildAdded", left_box)
        c2 == BaseBox_childEvent(c1.connections, "self", "right_box",
                                 "ChildAdded", right_box)
    IN [left_box |-> left_box, right_box |-> right_box,
        connections |-> c2.connections,
        slots |-> BaseBox_init(Overloads, TRUE)]

\* DualComboBox.get_box_value(*value_sig), value_sig a sequence of types
DualComboBox_get_box_value(D, value_sig) ==
    IF Len(value_sig) > 1
    THEN << get_box_value(D.left_box, {value_sig[1]}).val,
            get_box_value(D.right_box, {value_sig[2]}).val >>
    ELSE LET sig == {value_sig[k] : k \in 1..Len(value_sig)}
         IN << get_box_value(D.left_box, sig).val,
               get_box_value(D.right_box, sig).val >>

Emission(sig, val) == [sig |-> sig, val |-> val]

\* modified[sig].emit(*val): the emission, then what the slots connected to
\* that overload emit.  modified_signal_slot emits the four typed overloads
\* with the values of the two boxes; past MaxDepth the slot is not followed.
RECURSIVE emit(_, _, _, _)
RECURSIVE modified_signal_slot(_, _)
emit(D, sig, val, depth) ==
    <<Emission(sig, val)>>
        \o (IF sig \notin D.slots THEN <<>>
            ELSE IF depth = 0 THEN <<Emission(<<"RecursionError">>, <<>>)>>
            ELSE modified_signal_slot(D, depth - 1))

modified_signal_slot(D, depth) ==
    emit(D, SlotTypes[1], DualComboBox_get_box_value(D, SlotTypes[1]), depth)
        \o emit(D, SlotTypes[2], DualComboBox_get_box_value(D, SlotTypes[2]), depth)
        \o emit(D, SlotTypes[3], DualComboBox_get_box_value(D, SlotTypes[3]), depth)
        \o emit(D, SlotTypes[4], DualComboBox_get_box_value(D, SlotTypes[4]), depth)

\* The signals fired of the child at side are emitted: every connection of
\* one of them to modified, from connection k on, emits the first overload
RECURSIVE deliver(_, _, _, _)
deliver(D, k, side, fired) ==
    IF k > Len(D.connections) THEN <<>>
    ELSE (IF D.connections[k].child = side /\ D.connections[k].sig \in fired
          THEN emit(D, Overloads[1], <<>>, MaxDepth)
          ELSE <<>>)
         \o deliver(D, k + 1, side, fired)

\* The combobox at side becomes new: the box after it and the emissions
child_changed(S, side, new) ==
    LET D1 == [S.D EXCEPT ![side] = new]
    IN [D |-> D1,
        emissions |-> S.emissions \o deliver(D1, 1, side, Fired(S.D[side], new))]

\* DualComboBox.set_box_value(value): the left box is set, then the right
DualComboBox_set_box_value(D, value) ==
    LET l == set_box_value(D.left_box, value[1])
        S1 == child_changed([D |-> D, emissions |-> <<>>], "left_box", l.box)
        r == set_box_value(S1.D.right_box, value[2])
    IN child_changed(S1, "right_box", r.box)

\* A box that is not used
NoDual ==
    /\ dual = DualComboBox_init(<<FALSE, FALSE>>)
    /\ dual_call = [op |-> "init", emissions |-> <<>>]

---------------------------------------------------------------------------
\* The DataTable plugin

\* An action or menu made by the plugin owner; None, a separator
Action(label, owner) == [label |-> label, owner |-> owner]
None == Action("None", 0)

\* DataTable.add_actions of the plugin self: the lists MENU_ACTIONS['File']
\* and TOOLBAR_ACTIONS['File'] after it
add_actions(menu, toolbar, self) ==
    [MENU_ACTIONS |->
         menu \o << Action("New", self), None, Action("Open", self),
                    Action("Import", self), None, Action("Save", self),
                    Action("Save as", self), Action("Save all", self),
                    Action("Export", self) >>,
     TOOLBAR_ACTIONS |->
         toolbar \o << Action("New", self), Action("Open", self),
                       Action("Save", self), Action("Save all", self) >>]

\* BasePluginWidget.menu_actions and toolbar_actions of the plugin self:
\* getattr finds the attribute of the class
menu_actions(menu, self) == menu
toolbar_actions(toolbar, self) == toolbar

\* No plugin yet: the lists of the class are empty, the File menu and the
\* File toolbar of the main window are empty
NoPlugins ==
    /\ MENU_ACTIONS = <<>>
    /\ TOOLBAR_ACTIONS = <<>>
    /\ tab_widget = <<>>
    /\ plugin_list = <<>>
    /\ menus = <<>>
    /\ toolbars = <<>>

---------------------------------------------------------------------------
\* Inputs

Names == {"", "alpha", "beta"}

Pair(n, v) == [name |-> n, value |-> v]

Mappings ==
    { <<>>,
      <<Pair("alpha", IntV(5))>>,
      <<Pair("alpha", IntV(5)), Pair("beta", StrV("hi"))>>,
      <<Pair("beta", StrV("hi")), Pair("alpha", IntV(5))>>,
      <<Pair("gamma", StrV("raw"))>>,
      <<Pair("", IntV(5))>>,
      <<Pair("alpha", StrV("hi"))>> }

UserValues == {IntV(5), StrV("hi")}

EntryTypeArgs ==
    { ("alpha" :> "QSpinBox") @@ ("beta" :> "QLineEdit"),
      ("alpha" :> "QLineEdit") }

BannedArgs == { {"beta"} }

---------------------------------------------------------------------------
\* The entries box as a state machine

\* The outcome of a protocol call: the function, the types and the value it
\* was given, the error it raised, the value it returned
NoOut == [op |-> "none", sig |-> {}, arg |-> NoneV, err |-> "none", val |-> NoneV]

\* A call that takes no mapping and returns nothing; names are the entry names
\* given to addBannedNames or addEntryTypes
\* again: the call repeats the call before it (set_box_value, same mapping)
NoCall(op) ==
    [op |-> op, arg |-> <<>>, names |-> {}, err |-> "none", ret |-> EmptyDict,
     again |-> FALSE]

Init ==
    /\ entry_types = [x \in {} |-> ""]
    /\ banned_names = {}
    /\ entries_grid = init_grid
    /\ call = NoCall("init")
    /\ origin = <<-1, -1, -1>>
    /\ closed = {}
    /\ detached = {}
    /\ widget = NewWidget("QWidget")
    /\ out = NoOut
    /\ NoTree(NewWidget("QWidget"))
    /\ NoDual
    /\ NoPlugins

\* The effect of an operation that ended in editor state E
Becomes(E0, c) == \E E \in {E0} :
    /\ entries_grid' = E.grid
    /\ origin' = E.origin
    /\ closed' = E.closed
    /\ detached' = E.detached
    /\ call' = c

\* The user clicks the 'Add' button
AddEntry ==
    /\ itemAt(entries_grid, Len(entries_grid) - 1).row < MaxGridRow
    /\ Becomes(add_entry(Editor(entries_grid)), NoCall("add_entry"))
    /\ UNCHANGED <<entry_types, banned_names, box_vars, tree_vars, dual_vars, plugin_vars>>

\* The user clicks the 'Delete' button of data row r
RemoveEntry(r) ==
    /\ Becomes(remove_entry(Editor(entries_grid), 3 * r + 1),
               NoCall("remove_entry"))
    /\ UNCHANGED <<entry_types, banned_names, box_vars, tree_vars, dual_vars, plugin_vars>>

\* The user changes the text of the name box of data row r
EditName(r, name) ==
    /\ itemAt(entries_grid, 3 * r + 1).w.text # name
    /\ Becomes(set_name(Editor(entries_grid), 3 * r + 1, name, entry_types),
               NoCall("edit_name"))
    /\ UNCHANGED <<entry_types, banned_names, box_vars, tree_vars, dual_vars, plugin_vars>>

\* The user changes the value in the value box of data row r
EditValue(r, value) ==
    LET r1 == set_box_value(itemAt(entries_grid, 3 * r + 2).w, value)
    IN /\ r1.err = "none"
       /\ r1.changed
       /\ Becomes([Editor(entries_grid) EXCEPT !.grid[3 * r + 3].w = r1.box],
                  NoCall("edit_value"))
       /\ UNCHANGED <<entry_types, banned_names, box_vars, tree_vars, dual_vars, plugin_vars>>

AddBannedNames(names) ==
    LET r1 == addBannedNames(entry_types, banned_names, names)
    IN /\ banned_names' = r1.banned_names
       /\ entry_types' = r1.entry_types
       /\ Becomes(Editor(entries_grid),
                  [NoCall("addBannedNames") EXCEPT !.names = names])
       /\ UNCHANGED <<box_vars, tree_vars, dual_vars, plugin_vars>>

AddEntryTypes(arg) ==
    /\ entry_types' = addEntryTypes(entry_types, banned_names, arg)
    /\ Becomes(Editor(entries_grid),
               [NoCall("addEntryTypes") EXCEPT !.names = DOMAIN arg])
    /\ UNCHANGED <<banned_names, box_vars, tree_vars, dual_vars, plugin_vars>>

GetBoxValue ==
    LET r1 == EEB_get_box_value(entries_grid)
    IN /\ Becomes(Editor(entries_grid),
                  [NoCall("get_box_value") EXCEPT !.err = r1.err,
                                                  !.ret = r1.dict])
       /\ UNCHANGED <<entry_types, banned_names, box_vars, tree_vars, dual_vars, plugin_vars>>

SetBoxValue(m) ==
    \E E \in {EEB_set_box_value(Editor(entries_grid), m, entry_types, banned_names)} :
       /\ Becomes(E, [NoCall("set_box_value") EXCEPT
                          !.arg = m, !.err = E.err,
                          !.again = (call.op = "set_box_value" /\ call.arg = m)])
       /\ UNCHANGED <<entry_types, banned_names, box_vars, tree_vars, dual_vars, plugin_vars>>

Next ==
    \/ AddEntry
    \/ \E r \in 1..entryCount(entries_grid) : RemoveEntry(r)
    \/ \E r \in 1..entryCount(entries_grid), name \in Names : EditName(r, name)
    \/ \E r \in 1..entryCount(entries_grid), value \in UserValues : EditValue(r, value)
    \/ \E names \in BannedArgs : AddBannedNames(names)
    \/ \E arg \in EntryTypeArgs : AddEntryTypes(arg)
    \/ GetBoxValue
    \/ \E m \in Mappings : SetBoxValue(m)

Spec == Init /\ [][Next]_vars

---------------------------------------------------------------------------
\* The entries box with a factory whose widgets the protocol does not take
\* (a QFrame) and mappings whose first or second value the value box rejects

FailTypes == ("alpha" :> "QFrame") @@ ("beta" :> "QSpinBox")

FailNames == {"alpha", "beta"}

FailMappings ==
    { <<Pair("alpha", IntV(5)), Pair("beta", IntV(5))>>,
      <<Pair("beta", StrV("hi")), Pair("alpha", IntV(5))>>,
      <<Pair("beta", IntV(5)), Pair("alpha", IntV(5))>>,
      <<Pair("beta", IntV(7)), Pair("gamma", IntV(5))>> }

NextFail ==
    \/ AddEntry
    \/ \E r \in 1..entryCount(entries_grid) : RemoveEntry(r)
    \/ \E r \in 1..entryCount(entries_grid), name \in FailNames : EditName(r, name)
    \/ AddEntryTypes(FailTypes)
    \/ GetBoxValue
    \/ \E m \in FailMappings : SetBoxValue(m)

SpecFail == Init /\ [][NextFail]_vars

---------------------------------------------------------------------------
\* The registry alone: addEntryTypes and addBannedNames in any order, with
\* every argument over RegNames

\* A name box that set_box_value took out of the grid and did not put back or
\* close is still an open child of the box, connected to create_value_box.
\* For it indexOf gives -1, so itemAt(index + 1) is the first item of the list.
create_value_box_outside(E, entry_name, types) ==
    LET cur_box == itemAt(E.grid, 0).w
        cls == new_box_class(types, entry_name)
    IN IF cur_box.cls # cls
       THEN [E EXCEPT !.grid[1].w = NewWidget(cls),
                      !.origin[1] = -1,
                      !.closed = @ \cup ({E.origin[1]} \ {-1})]
       ELSE E

\* The texts the name box outside the grid cannot change to: its own
OutsideNames ==
    IF call.op = "set_box_value" THEN Keys(call.arg) ELSE call.names

\* The user changes the text of a name box that is outside the grid
OutsideEditName(name) ==
    /\ \E d \in detached : d % 3 = 1
    /\ name \notin OutsideNames
    /\ \E E \in {create_value_box_outside(Editor(entries_grid), name, entry_types)} :
          /\ entries_grid' = E.grid
          /\ origin' = E.origin
          /\ closed' = E.closed
    /\ call' = [NoCall("create_value_box") EXCEPT !.names = {name}]
    /\ UNCHANGED <<detached, entry_types, banned_names, box_vars, tree_vars, dual_vars, plugin_vars>>

OutsideMappings ==
    { <<Pair("alpha", IntV(5))>>,
      <<Pair("", IntV(5)), Pair("alpha", IntV(5))>> }

NextOutside ==
    \/ AddEntry
    \/ \E r \in 1..entryCount(entries_grid), name \in FailNames : EditName(r, name)
    \/ \E m \in OutsideMappings : SetBoxValue(m)
    \/ \E name \in Names : OutsideEditName(name)

SpecOutside == Init /\ [][NextOutside]_vars

RegNames == {"", "alpha", "beta", "gamma"}

Factories == {"QSpinBox", "QLineEdit", "QCheckBox"}

RegArgs ==
    UNION {[D -> Factories] : D \in {S \in SUBSET RegNames : Cardinality(S) <= 2}}

NextReg ==
    \/ \E names \in SUBSET RegNames : AddBannedNames(names)
    \/ \E arg \in RegArgs : AddEntryTypes(arg)

SpecReg == Init /\ [][NextReg]_vars

---------------------------------------------------------------------------
\* The protocol alone, applied to one widget of any class

ComboOf(cls) ==
    [NewWidget(cls) EXCEPT !.items = <<"a", "b">>, !.index = 0, !.text = "a"]

Classes ==
    SpinBoxes \cup Buttons \cup ComboBoxes \cup LineEdits \cup Labels
        \cup BaseBoxes \cup OtherWidgets

Boxes ==
    {NewWidget(cls) : cls \in Classes \ ComboBoxes}
        \cup {ComboOf(cls) : cls \in ComboBoxes}
        \cup {[NewWidget("QToolButton") EXCEPT !.checkable = TRUE]}

Sigs == {{}, {"int"}, {"str"}, {"int", "str"}}

BoxValues ==
    {IntV(0), IntV(1), IntV(150), StrV("b"), StrV("zz"), BoolV(TRUE),
     [t |-> "pixmap", i |-> 0, s |-> ""], NoneV}

InitBox ==
    /\ entry_types = [x \in {} |-> ""]
    /\ banned_names = {}
    /\ entries_grid = init_grid
    /\ call = NoCall("init")
    /\ origin = <<-1, -1, -1>>
    /\ closed = {}
    /\ detached = {}
    /\ widget \in Boxes
    /\ out = NoOut
    /\ NoTree(NewWidget("QWidget"))
    /\ NoDual
    /\ NoPlugins

BoxGet(sig) ==
    /\ out' = [op |-> "get_box_value", sig |-> sig, arg |-> NoneV]
                  @@ get_box_value(widget, sig)
    /\ UNCHANGED <<widget, editor_vars, tree_vars, dual_vars, plugin_vars>>

BoxSet(value) ==
    \E r \in {set_box_value(widget, value)} :
        /\ widget' = r.box
        /\ out' = [op |-> "set_box_value", sig |-> {}, arg |-> value,
                    err |-> r.err, val |-> NoneV]
        /\ UNCHANGED <<editor_vars, tree_vars, dual_vars, plugin_vars>>

BoxSignal(sig) ==
    /\ out' = [op |-> "get_modified_box_signal", sig |-> sig, arg |-> NoneV]
                  @@ get_modified_box_signal(widget, sig)
    /\ UNCHANGED <<widget, editor_vars, tree_vars, dual_vars, plugin_vars>>

NextBox ==
    \/ \E sig \in Sigs : BoxGet(sig)
    \/ \E value \in BoxValues : BoxSet(value)
    \/ \E sig \in Sigs : BoxSignal(sig)

SpecBox == InitBox /\ [][NextBox]_vars

---------------------------------------------------------------------------
\* The tree of boxes as a state machine: boxes and widgets become children of
\* one another, and the widget at the leaf changes

LeafBoxes ==
    {NewWidget(cls) : cls \in {"QSpinBox", "QCheckBox", "QToolButton",
                               "QLineEdit", "QLabel", "QW_QLabel", "QWidget"}}
        \cup {ComboOf("QComboBox")}

LeafValues == {IntV(1), StrV("b")}

InitTree ==
    /\ entry_types = [x \in {} |-> ""]
    /\ banned_names = {}
    /\ entries_grid = init_grid
    /\ call = NoCall("init")
    /\ origin = <<-1, -1, -1>>
    /\ closed = {}
    /\ detached = {}
    /\ widget = NewWidget("QWidget")
    /\ out = NoOut
    /\ \E leaf \in LeafBoxes : NoTree(leaf)
    /\ NoDual
    /\ NoPlugins

RECURSIVE Ancestors(_, _)
Ancestors(par, n) ==
    IF par[n] = 0 THEN {} ELSE {par[n]} \cup Ancestors(par, par[n])

\* Node c becomes a child of node p (setParent, or a layout of p takes it):
\* p receives the event ChildAdded.  A widget that is no BaseBox has the
\* childEvent of QObject.
Adopt(p, c) ==
    /\ p # c
    /\ parent[c] = 0
    /\ nodes[p].cls \in BaseBoxes \cup OtherWidgets
    /\ c \notin Ancestors(parent, p)
    /\ parent' = [parent EXCEPT ![c] = p]
    /\ \E r \in {IF nodes[p].cls \in BaseBoxes
                  THEN BaseBox_childEvent(connections, p, c, "ChildAdded", nodes[c])
                  ELSE [connections |-> connections, err |-> "none",
                        base |-> TRUE]} :
          /\ connections' = r.connections
          /\ event' = [NoEvent EXCEPT !.op = "childEvent", !.node = c, !.to = p,
                                      !.type = "ChildAdded",
                                      !.base = r.base, !.err = r.err]
    /\ UNCHANGED <<nodes, editor_vars, box_vars, dual_vars, plugin_vars>>

\* The child c of a box is polished: the box receives the event ChildPolished
Polish(c) ==
    /\ parent[c] # 0
    /\ nodes[parent[c]].cls \in BaseBoxes
    /\ \E r \in {BaseBox_childEvent(connections, parent[c], c, "ChildPolished",
                                     nodes[c])} :
          /\ connections' = r.connections
          /\ event' = [NoEvent EXCEPT !.op = "childEvent", !.node = c,
                                      !.to = parent[c], !.type = "ChildPolished",
                                      !.base = r.base, !.err = r.err]
    /\ UNCHANGED <<nodes, parent, editor_vars, box_vars, dual_vars, plugin_vars>>

\* The widget at the leaf goes to new: its signals are emitted, and with
\* them the modified of the boxes connected to them
Changes(op, new) ==
    LET fired == Fired(nodes[Leaf], new)
                     \cup (IF op = "click" THEN {"clicked"} ELSE {})
    IN /\ nodes' = [nodes EXCEPT ![Leaf] = new]
       /\ event' = [NoEvent EXCEPT
                        !.op = op, !.node = Leaf, !.fired = fired,
                        !.emitted = [a \in Composites |->
                                        Emits(connections, 1, a, Leaf, fired)]]
       /\ UNCHANGED <<parent, connections, editor_vars, box_vars, dual_vars, plugin_vars>>

\* The value of the leaf is set.  The signal of a QW_QLabel is emitted by
\* code that is not modelled: its value is left alone.
LeafSet(value) ==
    /\ nodes[Leaf].cls \notin WLabels
    /\ set_box_value(nodes[Leaf], value).err = "none"
    /\ Changes("set", set_box_value(nodes[Leaf], value).box)

\* The user clicks the leaf, a button
LeafClick ==
    /\ nodes[Leaf].cls \in Buttons
    /\ Changes("click", click(nodes[Leaf]))

NextTree ==
    \/ \E p \in TreeNodes, c \in TreeNodes : Adopt(p, c)
    \/ \E c \in TreeNodes : Polish(c)
    \/ \E value \in LeafValues : LeafSet(value)
    \/ LeafClick

SpecTree == InitTree /\ [][NextTree]_vars

---------------------------------------------------------------------------
\* The rows of the entries box

DataRows(grid) == 1..entryCount(grid)

\* The name and the value box of the r-th data row of the item list
NameOf(grid, r) == get_box_value(itemAt(grid, 3 * r + 1).w, {}).val.s
ValueBox(grid, r) == itemAt(grid, 3 * r + 2).w

\* The bottom-most data row named x (0 when there is none)
LastRow(grid, x) ==
    IF \E r \in DataRows(grid) : NameOf(grid, r) = x
    THEN CHOOSE r \in DataRows(grid) :
             /\ NameOf(grid, r) = x
             /\ \A q \in DataRows(grid) : NameOf(grid, q) = x => q <= r
    ELSE 0

\* What can be seen of the rows: name, class and value of the value box, grid row
Observable(grid) ==
    [r \in DataRows(grid) |->
        [name |-> NameOf(grid, r), cls |-> ValueBox(grid, r).cls,
         value |-> get_box_value(ValueBox(grid, r), {}),
         row |-> itemAt(grid, 3 * r + 1).row]]

\* The values a value box of class cls takes and gives back
Accepts(cls, v) ==
    CASE cls = "QSpinBox" -> v.t = "int" /\ v.i \in 0..99
      [] cls = "QLineEdit" -> v.t = "str"
      [] cls = "GenericBox" -> TRUE
      [] OTHER -> FALSE

\* The class of the value box that set_box_value(m) gives the value of x to:
\* that of the row of x it reuses, or the one create_value_box selects
TargetCls(grid, types, x) ==
    IF LastRow(grid, x) # 0 THEN ValueBox(grid, LastRow(grid, x)).cls
    ELSE new_box_class(types, x)

\* The mappings of the round trip: names not empty and not banned, values
\* of the kind the value box of the name accepts
RoundTripArg(m) ==
    \A k \in 1..Len(m) :
        /\ m[k].name # ""
        /\ m[k].name \notin banned_names
        /\ Accepts(TargetCls(entries_grid, entry_types, m[k].name), m[k].value)

\* C1: from any state, set_box_value(m) with such a mapping returns and
\* get_box_value() then returns a mapping equal to m.
C1_RoundTrip ==
    [][(call'.op = "set_box_value" /\ RoundTripArg(call'.arg))
          => /\ call'.err = "none"
             /\ EEB_get_box_value(entries_grid').err = "none"
             /\ EEB_get_box_value(entries_grid').dict = AsDict(call'.arg)]_vars

\* Two pairs were set, one on a reused row and one on a new row
C1_Witness ==
    /\ call.op = "set_box_value" /\ call.err = "none" /\ Len(call.arg) = 2
    /\ \A k \in 1..2 : call.arg[k].name \notin banned_names \cup {""}
    /\ \E k \in 4..Len(origin) : origin[k] >= 3
    /\ \E k \in 4..Len(origin) : origin[k] = -1
    /\ EEB_get_box_value(entries_grid).dict = AsDict(call.arg)

\* C2: after set_box_value(m), no row carries a banned name and
\* get_box_value() holds no banned name.
C2_BanEnforced ==
    call.op = "set_box_value" =>
        /\ \A r \in DataRows(entries_grid) :
               NameOf(entries_grid, r) \notin banned_names
        /\ DOMAIN EEB_get_box_value(entries_grid).dict \cap banned_names = {}

\* C3: in every state, no row with a real value box carries a banned name, and
\* get_box_value() holds no banned name.
C3_NoBannedEntry ==
    /\ \A r \in DataRows(entries_grid) :
           ValueBox(entries_grid, r).cls # "QWidget"
               => NameOf(entries_grid, r) \notin banned_names
    /\ DOMAIN EEB_get_box_value(entries_grid).dict \cap banned_names = {}

\* C6: set_box_value(m) called again right after set_box_value(m) leaves the
\* rows as they were: names, order, classes of the value boxes, values.
C6_Idempotent ==
    [][(call.op = "set_box_value" /\ call'.op = "set_box_value"
            /\ call'.arg = call.arg)
          => /\ Observable(entries_grid') = Observable(entries_grid)
             /\ call'.err = call.err]_vars

\* The second of two calls in a row, with two pairs
C6_Witness ==
    /\ call.op = "set_box_value" /\ call.again /\ call.err = "none"
    /\ Len(call.arg) = 2

\* C7: a row with an empty name is not in the result of get_box_value() and
\* its value box is not read; every row with a name is in the result.
C7_EmptyNameExcluded ==
    LET r0 == EEB_get_box_value(entries_grid)
    IN /\ "" \notin DOMAIN r0.dict
       /\ \A r \in DataRows(entries_grid) :
              IF NameOf(entries_grid, r) = ""
              THEN (3 * r + 2) \notin r0.reads
              ELSE r0.err = "none" => NameOf(entries_grid, r) \in DOMAIN r0.dict
       /\ call.op = "get_box_value" => call.ret = r0.dict /\ call.err = r0.err

\* get_box_value() was called with an unnamed row above a named one
C7_Witness ==
    /\ call.op = "get_box_value"
    /\ entryCount(entries_grid) = 2
    /\ NameOf(entries_grid, 1) = ""
    /\ NameOf(entries_grid, 2) # ""
    /\ DOMAIN call.ret = {NameOf(entries_grid, 2)}

\* C8: after set_box_value(m) has returned, the grid rows 1, 2, ... carry the
\* names of m in its order, one row per pair, and there is no other row.
C8_RowOrder ==
    (call.op = "set_box_value" /\ call.err = "none") =>
        /\ entryCount(entries_grid) = Len(call.arg)
        /\ \A k \in 1..Len(call.arg) :
               LET p == itemAtPosition(entries_grid, k, 1)
               IN /\ p # -1
                  /\ itemAt(entries_grid, p).w.cls = "EditableComboBox"
                  /\ itemAt(entries_grid, p).w.text = call.arg[k].name
                  /\ NameOf(entries_grid, k) = call.arg[k].name
        /\ \A j \in 4..Len(entries_grid) :
               entries_grid[j].row \in 1..Len(call.arg)

\* Two rows were reused in the other order
C8_Witness ==
    /\ call.op = "set_box_value" /\ call.err = "none" /\ Len(call.arg) = 2
    /\ Len(origin) = 9
    /\ origin[5] = 7 /\ origin[8] = 4

\* C9: set_box_value(m) that returns keeps, for every name x of m that has
\* a row, is not empty and not banned, the delete button, the name box and
\* the value box of the bottom-most row named x, and sets the value on that
\* value box.
C9_ReuseKeepsInstances ==
    [][(call'.op = "set_box_value" /\ call'.err = "none")
          => \A x \in Keys(call'.arg) \ (banned_names \cup {""}) :
                LET r == LastRow(entries_grid, x)
                    q == LastRow(entries_grid', x)
                IN r # 0 =>
                     /\ q # 0
                     /\ origin'[3 * q + 1] = 3 * r
                     /\ origin'[3 * q + 2] = 3 * r + 1
                     /\ origin'[3 * q + 3] = 3 * r + 2
                     /\ ValueBox(entries_grid', q).cls = ValueBox(entries_grid, r).cls
                     /\ ValueBox(entries_grid', q) =
                            set_box_value(ValueBox(entries_grid, r),
                                          AsDict(call'.arg)[x]).box]_vars

\* A row was reused and its value box holds another value than before
C9_Witness ==
    /\ call.op = "set_box_value" /\ call.err = "none"
    /\ ~call.again
    /\ \E r \in DataRows(entries_grid) :
           /\ origin[3 * r + 3] = 3 * r + 2
           /\ ValueBox(entries_grid, r).cls = "QSpinBox"
           /\ ValueBox(entries_grid, r).num = 5

---------------------------------------------------------------------------
\* Registry invariants

\* C4: banned_names and the keys of entry_types are disjoint in every state
\* reached by addEntryTypes and addBannedNames in any order.
C4_Disjoint == banned_names \cap DOMAIN entry_types = {}

\* addEntryTypes was given a banned name along with one that is not banned
C4_Witness ==
    /\ call.op = "addEntryTypes"
    /\ call.names \cap banned_names # {}
    /\ call.names \cap DOMAIN entry_types # {}

\* C5: the empty string is never a key of entry_types nor in banned_names.
C5_NoEmptyName == "" \notin DOMAIN entry_types /\ "" \notin banned_names

\* addBannedNames was given the empty string along with a name it banned
C5_Witness ==
    /\ call.op = "addBannedNames"
    /\ "" \in call.names
    /\ call.names \cap banned_names # {}
    /\ entry_types # [x \in {} |-> ""]

---------------------------------------------------------------------------
\* The protocol on a widget outside the closed set of kinds

\* C10: on a widget that is none of the six kinds, get_box_value,
\* set_box_value and get_modified_box_signal each raise NotImplementedError,
\* which the caller receives, and leave the widget as it was.
C10_Unsupported ==
    [][(widget.cls \in OtherWidgets /\ out' # out)
          => (out'.err = "NotImplementedError" /\ widget' = widget)]_vars

C10_Witness ==
    /\ widget.cls \in OtherWidgets
    /\ out.op = "get_modified_box_signal"
    /\ out.err = "NotImplementedError"

---------------------------------------------------------------------------
\* The protocol by kind of widget

\* C11: get_box_value(widget, *hint) returns the number of a spinbox; of a
\* checkable button the checked state, or the text if str is among the hints;
\* of a button that is not checkable the text; of a combobox the index if int
\* is among the hints, else the text; of a line edit the text; of a BaseBox
\* what its own get_box_value returns for the same hints.
C11_ValueByKind ==
    out.op = "get_box_value" =>
        CASE widget.cls \in SpinBoxes ->
                 /\ out.err = "none"
                 /\ out.val = IntV(widget.num)
          [] widget.cls \in Buttons /\ widget.checkable /\ "str" \notin out.sig ->
                 /\ out.err = "none"
                 /\ out.val = BoolV(widget.checked)
          [] widget.cls \in Buttons /\ ~(widget.checkable /\ "str" \notin out.sig) ->
                 /\ out.err = "none"
                 /\ out.val = StrV(widget.text)
          [] widget.cls \in ComboBoxes /\ "int" \in out.sig ->
                 /\ out.err = "none"
                 /\ out.val = IntV(widget.index)
          [] widget.cls \in ComboBoxes /\ "int" \notin out.sig ->
                 /\ out.err = "none"
                 /\ out.val = StrV(widget.text)
          [] widget.cls \in LineEdits ->
                 /\ out.err = "none"
                 /\ out.val = StrV(widget.text)
          [] widget.cls \in BaseBoxes ->
                 /\ out.err = BaseBox_get_box_value(widget, out.sig).err
                 /\ out.val = BaseBox_get_box_value(widget, out.sig).val
          [] OTHER -> TRUE

\* The text of a checked checkable button was asked for with str
C11_Witness ==
    /\ out.op = "get_box_value"
    /\ widget.cls \in Buttons /\ widget.checkable /\ widget.checked
    /\ out.sig = {"str"}
    /\ out.val = StrV("b")

\* C12, as claimed: set_box_value on a combobox with a string selects the
\* item equal to it, if there is one, and else sets it as the text without
\* selecting or adding an item; get_box_value(widget) is then that string.
C12_ChoiceSetAnyCombo ==
    [][(widget.cls \in ComboBoxes /\ out'.op = "set_box_value"
            /\ out'.arg.t = "str" /\ out' # out)
          => /\ out'.err = "none"
             /\ widget'.items = widget.items
             /\ IF findText(widget.items, out'.arg.s) # -1
                THEN widget'.index = findText(widget.items, out'.arg.s)
                ELSE widget'.index = widget.index
             /\ get_box_value(widget', {}) = Ret(out'.arg)]_vars

\* C12, amended: an integer within the items selects the item at that index;
\* a string equal to an item selects the first such item; another string is
\* set as the text of an editable combobox, without selecting or adding an
\* item, and leaves a combobox that is not editable as it was.  The items stay
\* the same; get_box_value(widget) is then the string, but for that last case.
C12_ChoiceSet ==
    [][(widget.cls \in ComboBoxes /\ out'.op = "set_box_value" /\ out' # out)
          => LET v == out'.arg
                 n == Len(widget.items)
             IN /\ widget'.items = widget.items
                /\ (IsInt(v) /\ v.i \in 0..(n - 1)) =>
                       /\ out'.err = "none"
                       /\ widget'.index = v.i
                       /\ widget'.text = widget.items[v.i + 1]
                /\ (IsStr(v) /\ \E k \in 1..n : widget.items[k] = v.s) =>
                       /\ out'.err = "none"
                       /\ widget'.index \in 0..(n - 1)
                       /\ widget.items[widget'.index + 1] = v.s
                       /\ \A j \in 1..widget'.index : widget.items[j] # v.s
                       /\ get_box_value(widget', {}) = Ret(v)
                /\ (IsStr(v) /\ \A k \in 1..n : widget.items[k] # v.s) =>
                       /\ out'.err = "none"
                       /\ widget'.index = widget.index
                       /\ IF widget.cls = "EditableComboBox"
                          THEN get_box_value(widget', {}) = Ret(v)
                          ELSE widget' = widget]_vars

\* An editable combobox with an item selected was given a text that is none
\* of its items
C12_Witness ==
    /\ widget.cls = "EditableComboBox"
    /\ out.op = "set_box_value" /\ out.arg = StrV("zz")
    /\ widget.text = "zz" /\ widget.index = 1

\* C13, as claimed: get_modified_box_signal raises for every label.
C13_NoLabelSignal ==
    (out.op = "get_modified_box_signal" /\ widget.cls \in Labels)
        => out.err = "NotImplementedError"

\* C13, amended: get_modified_box_signal raises NotImplementedError for a
\* QLabel that is not a QW_QLabel, and returns contentsChanged for a QW_QLabel.
C13_PlainLabelNoSignal ==
    (out.op = "get_modified_box_signal" /\ widget.cls \in Labels)
        => IF widget.cls \in WLabels
           THEN out.err = "none" /\ out.val = StrV("contentsChanged")
           ELSE out.err = "NotImplementedError"

C13_Witness ==
    /\ out.op = "get_modified_box_signal"
    /\ widget.cls = "QLabel"
    /\ widget.text = "b"
    /\ out.err = "NotImplementedError"

\* C14: get_modified_box_signal(widget, *hint) returns valueChanged for a
\* spinbox; toggled for a checkable button and clicked for one that is not;
\* for a combobox currentIndexChanged if int is among the hints, else
\* currentTextChanged; textChanged for a line edit; modified for a BaseBox,
\* whatever the hints.
C14_SignalByKind ==
    out.op = "get_modified_box_signal" =>
        CASE widget.cls \in SpinBoxes -> out.val = StrV("valueChanged")
          [] widget.cls \in Buttons /\ widget.checkable -> out.val = StrV("toggled")
          [] widget.cls \in Buttons /\ ~widget.checkable -> out.val = StrV("clicked")
          [] widget.cls \in ComboBoxes /\ "int" \in out.sig ->
                 out.val = StrV("currentIndexChanged")
          [] widget.cls \in ComboBoxes /\ "int" \notin out.sig ->
                 out.val = StrV("currentTextChanged")
          [] widget.cls \in LineEdits -> out.val = StrV("textChanged")
          [] widget.cls \in BaseBoxes -> out.val = StrV("modified")
          [] OTHER -> TRUE

\* The signal of a BaseBox was asked for with int and str
C14_Witness ==
    /\ out.op = "get_modified_box_signal"
    /\ widget.cls = "BaseBox"
    /\ out.sig = {"int", "str"}
    /\ out.val = StrV("modified")

---------------------------------------------------------------------------
\* The modified signal in a tree of boxes

\* The default modified signal of the widget at node n
\* connect_box(box) is called on the box at node p for the widget at the leaf
ConnectBox(p) ==
    /\ Len(connections) < MaxConnections
    /\ \E r \in {BaseBox_connect_box(connections, p, Leaf, parent, nodes[Leaf])} :
          /\ connections' = r.connections
          /\ event' = [NoEvent EXCEPT !.op = "connect_box", !.node = Leaf,
                                      !.to = p, !.err = r.err]
    /\ UNCHANGED <<nodes, parent, editor_vars, box_vars, dual_vars, plugin_vars>>

NextConnect ==
    \/ \E p \in Composites : Adopt(p, Leaf)
    \/ \E p \in Composites : ConnectBox(p)
    \/ \E value \in LeafValues : LeafSet(value)
    \/ LeafClick

SpecConnect == InitTree /\ [][NextConnect]_vars

\* The state machine of a DualComboBox

DualSides == {"left_box", "right_box"}

DualValues == {IntV(0), IntV(1), StrV("b"), StrV("zz")}

InitDual ==
    /\ entry_types = [x \in {} |-> ""]
    /\ banned_names = {}
    /\ entries_grid = init_grid
    /\ call = NoCall("init")
    /\ origin = <<-1, -1, -1>>
    /\ closed = {}
    /\ detached = {}
    /\ widget = NewWidget("QWidget")
    /\ out = NoOut
    /\ NoTree(NewWidget("QWidget"))
    /\ \E editable \in BOOLEAN \X BOOLEAN : dual = DualComboBox_init(editable)
    /\ dual_call = [op |-> "init", emissions |-> <<>>]
    /\ NoPlugins

\* Items are added to the empty combobox at side, box[0] or box[1]: the
\* first of them becomes the current item
DualAddItems(side) ==
    /\ dual[side].items = <<>>
    /\ \E S \in {child_changed([D |-> dual, emissions |-> <<>>], side,
                                [dual[side] EXCEPT !.items = <<"a", "b">>,
                                                   !.index = 0, !.text = "a"])} :
          /\ dual' = S.D
          /\ dual_call' = [op |-> "addItems", emissions |-> S.emissions]
    /\ UNCHANGED <<editor_vars, box_vars, tree_vars, plugin_vars>>

\* set_box_value(box, (left, right))
DualSetValue(left, right) ==
    /\ set_box_value(dual.left_box, left).err = "none"
    /\ set_box_value(dual.right_box, right).err = "none"
    /\ \E S \in {DualComboBox_set_box_value(dual, <<left, right>>)} :
          /\ dual' = S.D
          /\ dual_call' = [op |-> "set_box_value", emissions |-> S.emissions]
    /\ UNCHANGED <<editor_vars, box_vars, tree_vars, plugin_vars>>

\* box.modified.emit() by code outside the box
DualEmit ==
    /\ dual_call' = [op |-> "emit",
                     emissions |-> emit(dual, Overloads[1], <<>>, MaxDepth)]
    /\ UNCHANGED <<dual, editor_vars, box_vars, tree_vars, plugin_vars>>

NextDual ==
    \/ \E side \in DualSides : DualAddItems(side)
    \/ \E left \in DualValues, right \in DualValues : DualSetValue(left, right)
    \/ DualEmit

SpecDual == InitDual /\ [][NextDual]_vars

\* The state machine of the DataTable plugins of a main window

\* DataTable(): add_actions, then add_tab
NewDataTable ==
    /\ Len(tab_widget) < MaxTables
    /\ \E r \in {add_actions(MENU_ACTIONS, TOOLBAR_ACTIONS, Len(tab_widget) + 1)} :
          /\ MENU_ACTIONS' = r.MENU_ACTIONS
          /\ TOOLBAR_ACTIONS' = r.TOOLBAR_ACTIONS
    /\ tab_widget' = Append(tab_widget, <<0>>)
    /\ UNCHANGED <<plugin_list, menus, toolbars, editor_vars, box_vars,
                   tree_vars, dual_vars>>

\* add_tab of plugin i, the slot of its action New: the tab "Table <count>"
AddTab(i) ==
    /\ Len(tab_widget[i]) < MaxTabs
    /\ tab_widget' = [tab_widget EXCEPT ![i] = Append(@, Len(@))]
    /\ UNCHANGED <<MENU_ACTIONS, TOOLBAR_ACTIONS, plugin_list, menus, toolbars,
                   editor_vars, box_vars, tree_vars, dual_vars>>

\* close_tab(index) of plugin i
CloseTab(i, index) ==
    /\ index < Len(tab_widget[i])
    /\ tab_widget' = [tab_widget EXCEPT ![i] = RemoveAt(@, index + 1)]
    /\ UNCHANGED <<MENU_ACTIONS, TOOLBAR_ACTIONS, plugin_list, menus, toolbars,
                   editor_vars, box_vars, tree_vars, dual_vars>>

\* MainWindow.add_dockwidget(plugin) for plugin i: its menu actions, then a
\* separator, go to the File menu, its toolbar actions to the File toolbar
AddDockwidget(i) ==
    /\ \A k \in 1..Len(plugin_list) : plugin_list[k] # i
    /\ plugin_list' = Append(plugin_list, i)
    /\ menus' = menus \o menu_actions(MENU_ACTIONS, i) \o <<None>>
    /\ toolbars' = toolbars \o toolbar_actions(TOOLBAR_ACTIONS, i)
    /\ UNCHANGED <<MENU_ACTIONS, TOOLBAR_ACTIONS, tab_widget, editor_vars,
                   box_vars, tree_vars, dual_vars>>

NextPlugin ==
    \/ NewDataTable
    \/ \E i \in 1..Len(tab_widget) : AddTab(i)
    \/ \E i \in 1..Len(tab_widget), index \in 0..(MaxTabs - 1) : CloseTab(i, index)
    \/ \E i \in 1..Len(tab_widget) : AddDockwidget(i)

SpecPlugin == Init /\ [][NextPlugin]_vars

Signal(n) == get_modified_box_signal(nodes[n], {})

\* The boxes above node n, as long as each is a BaseBox with the one below
\* as its child
RECURSIVE BoxChain(_, _, _)
BoxChain(par, nd, n) ==
    IF par[n] = 0 \/ nd[par[n]].cls \notin BaseBoxes THEN {}
    ELSE {par[n]} \cup BoxChain(par, nd, par[n])

\* C15: a BaseBox is connected to the modified signal of every child of it
\* that has one; when the widget at the leaf emits its modified signal, every
\* BaseBox on the chain of boxes above it, up to the outermost, emits modified.
C15_Aggregation ==
    /\ \A c \in TreeNodes :
           (parent[c] # 0 /\ nodes[parent[c]].cls \in BaseBoxes
                /\ Signal(c).err = "none")
             => \E k \in 1..Len(connections) :
                   connections[k] = Connection(c, Signal(c).val.s, parent[c])
    /\ (event.op \in {"set", "click"} /\ Signal(Leaf).err = "none"
            /\ Signal(Leaf).val.s \in event.fired)
          => \A a \in BoxChain(parent, nodes, Leaf) : event.emitted[a] >= 1

\* The leaf, the first to get a parent, changed under three nested boxes
C15_Witness ==
    /\ event.op = "set" /\ event.fired # {}
    /\ parent[Leaf] = 3 /\ parent[3] = 2 /\ parent[2] = 1
    /\ connections[1].child = Leaf
    /\ connections[3] = Connection(2, "modified", 1)
    /\ event.emitted = [a \in Composites |-> 1]

\* C16: a child without a modified signal (a plain label, a widget of no
\* kind) is added to a BaseBox without an error and without a connection, the
\* event goes on to the handler of the base class, and no change of that
\* child makes a box emit modified.
C16_NoSignalChild ==
    /\ (event.op = "childEvent" /\ event.type = "ChildAdded"
            /\ Signal(event.node).err # "none")
          => event.err = "none" /\ event.base
    /\ \A c \in TreeNodes :
           Signal(c).err # "none"
             => \A k \in 1..Len(connections) : connections[k].child # c
    /\ (event.op \in {"set", "click"} /\ Signal(Leaf).err # "none")
          => \A a \in Composites : event.emitted[a] = 0

\* The text of a plain label changed under two nested boxes
C16_Witness ==
    /\ event.op = "set"
    /\ nodes[Leaf].cls = "QLabel" /\ nodes[Leaf].text = "b"
    /\ parent[Leaf] = 2 /\ parent[2] = 1
    /\ Len(connections) = 1
    /\ event.emitted = [a \in Composites |-> 0]

---------------------------------------------------------------------------
\* Errors of the protocol inside the entries box

\* The error of the protocol's get_box_value on the value box of row r
GetError(grid, r) == get_box_value(ValueBox(grid, r), {}).err

\* The rows of grid whose name is not empty and whose value box cannot be read
FailingRows(grid) ==
    {r \in DataRows(grid) : NameOf(grid, r) # "" /\ GetError(grid, r) # "none"}

\* The class of the value box set_box_value(m) gives the value of pair k to,
\* and the error of the protocol's set_box_value on a box of that class
PairCls(grid, types, banned, m, k) ==
    IF m[k].name \notin banned \cup {""} /\ LastRow(grid, m[k].name) # 0
    THEN ValueBox(grid, LastRow(grid, m[k].name)).cls
    ELSE new_box_class(types, m[k].name)

SetError(grid, types, banned, m, k) ==
    set_box_value(NewWidget(PairCls(grid, types, banned, m, k)), m[k].value).err

FailingPairs(grid, types, banned, m) ==
    {k \in 1..Len(m) : SetError(grid, types, banned, m, k) # "none"}

Min(S) == CHOOSE x \in S : \A y \in S : x <= y

\* C17: an error of the protocol's get_box_value or set_box_value on the value
\* box of a row ends the get_box_value or set_box_value of the entries box
\* with that error: the rows below the first failing row are not read, the
\* pairs after the first failing pair get no row, and the value box that
\* failed is left as it was.
C17_ErrorPropagates ==
    [][/\ call'.op = "get_box_value" =>
             LET bad == FailingRows(entries_grid)
                 r0 == EEB_get_box_value(entries_grid)
             IN IF bad = {} THEN call'.err = "none"
                ELSE /\ call'.err = GetError(entries_grid, Min(bad))
                     /\ call'.err \in {"NotImplementedError", "TypeError"}
                     /\ \A i \in r0.reads : i <= 3 * Min(bad) + 2
                     /\ entries_grid' = entries_grid
       /\ call'.op = "set_box_value" =>
             LET m == call'.arg
                 bad == FailingPairs(entries_grid, entry_types, banned_names, m)
             IN IF bad = {} THEN call'.err = "none"
                ELSE LET k == Min(bad)
                     IN /\ call'.err = SetError(entries_grid, entry_types,
                                                banned_names, m, k)
                        /\ call'.err \in {"NotImplementedError", "TypeError"}
                        /\ entryCount(entries_grid') = k
                        /\ \A j \in 1..k : NameOf(entries_grid', j) = m[j].name
                        /\ ValueBox(entries_grid', k) \in
                               {NewWidget(PairCls(entries_grid, entry_types,
                                                  banned_names, m, k))}
                               \cup {ValueBox(entries_grid, r) :
                                        r \in DataRows(entries_grid)}
      ]_vars

\* set_box_value ended with the error of its first pair, whose row was new,
\* and the row of the second pair, in the box before, is gone
C17_Witness ==
    /\ call.op = "set_box_value" /\ call.err = "NotImplementedError"
    /\ Len(call.arg) = 2
    /\ entryCount(entries_grid) = 1
    /\ origin[6] = -1
    /\ detached # {}

---------------------------------------------------------------------------
\* The value box of a row and the name of the row

\* C18: in every state, every row has a name box and a value box, and the
\* value box is of the class the name of the row selects: the factory
\* entry_types has for the name, the generic box for another name that is
\* not empty, the empty widget for the empty name.
C18_KindMatchesName ==
    \A r \in DataRows(entries_grid) :
        /\ itemAt(entries_grid, 3 * r + 1).w.cls = "EditableComboBox"
        /\ ValueBox(entries_grid, r).cls =
               new_box_class(entry_types, NameOf(entries_grid, r))

\* The rows whose name the step changes
Renamed ==
    {r \in DataRows(entries_grid) :
        NameOf(entries_grid', r) # NameOf(entries_grid, r)}

\* C19: when the name of a row changes, and when set_box_value makes a new
\* row, the value box of the row is of the class its name selects: the
\* factory of entry_types, the generic box, or the empty widget for the empty
\* name.  set_box_value({gamma: 'raw'}), gamma not in entry_types, leaves one
\* row, a generic box that holds 'raw', and get_box_value() is {gamma: 'raw'}.
C19_KindSelected ==
    [][/\ call'.op = "edit_name" =>
             \A r \in Renamed :
                 ValueBox(entries_grid', r).cls =
                     new_box_class(entry_types, NameOf(entries_grid', r))
       /\ call'.op = "set_box_value" =>
             \A q \in DataRows(entries_grid') :
                 origin'[3 * q + 2] = -1 =>
                     ValueBox(entries_grid', q).cls =
                         new_box_class(entry_types, NameOf(entries_grid', q))
       /\ (call'.op = "set_box_value"
              /\ call'.arg = <<Pair("gamma", StrV("raw"))>>
              /\ "gamma" \notin DOMAIN entry_types) =>
             /\ call'.err = "none"
             /\ entryCount(entries_grid') = 1
             /\ ValueBox(entries_grid', 1).cls = "GenericBox"
             /\ ValueBox(entries_grid', 1).held = StrV("raw")
             /\ EEB_get_box_value(entries_grid').err = "none"
             /\ EEB_get_box_value(entries_grid').dict = ("gamma" :> StrV("raw"))
      ]_vars

\* set_box_value({gamma: 'raw'}) made a new row in a box with types registered
C19_Witness ==
    /\ call.op = "set_box_value"
    /\ call.arg = <<Pair("gamma", StrV("raw"))>>
    /\ DOMAIN entry_types = {"alpha", "beta"}
    /\ origin[6] = -1
    /\ ValueBox(entries_grid, 1).held = StrV("raw")

\* C20: when the name of a row changes, the value box stays, the same widget
\* with the value it holds, if it is of the class the new name selects;
\* else it is closed and a new box of that class takes its place in the item
\* list and in the grid.  No other item changes.
C20_ReplaceOnlyIfKindDiffers ==
    [][call'.op = "edit_name" =>
          /\ Len(entries_grid') = Len(entries_grid)
          /\ \A r \in Renamed :
                LET old == ValueBox(entries_grid, r)
                    cls == new_box_class(entry_types, NameOf(entries_grid', r))
                IN /\ IF old.cls = cls
                      THEN /\ ValueBox(entries_grid', r) = old
                           /\ origin'[3 * r + 3] = 3 * r + 2
                           /\ closed' = {}
                      ELSE /\ ValueBox(entries_grid', r) = NewWidget(cls)
                           /\ origin'[3 * r + 3] = -1
                           /\ closed' = {3 * r + 2}
                   /\ entries_grid'[3 * r + 3].row = entries_grid[3 * r + 3].row
                   /\ entries_grid'[3 * r + 3].col = entries_grid[3 * r + 3].col
                   /\ \A j \in 1..Len(entries_grid) :
                          j \notin {3 * r + 2, 3 * r + 3}
                              => /\ entries_grid'[j] = entries_grid[j]
                                 /\ origin'[j] = j - 1
      ]_vars

\* A row went from one name to another with the same factory and its
\* value box still holds the text typed under the first name
C20_Witness ==
    /\ call.op = "edit_name"
    /\ entry_types = ("alpha" :> "QLineEdit") @@ ("beta" :> "QLineEdit")
    /\ \E r \in DataRows(entries_grid) :
           /\ NameOf(entries_grid, r) = "beta"
           /\ origin[3 * r + 3] = 3 * r + 2
           /\ ValueBox(entries_grid, r).cls = "QLineEdit"
           /\ ValueBox(entries_grid, r).text = "hi"

---------------------------------------------------------------------------
\* The number of entries and the removal of an entry

\* The grid rows below the header that hold an item
GridRows(grid) == {grid[k].row : k \in 1..Len(grid)} \ {0}

\* The items of the grid at grid row g
ItemsAt(grid, g) == {k \in 1..Len(grid) : grid[k].row = g}

CountIsRows(grid) ==
    /\ entryCount(grid) = Cardinality(GridRows(grid))
    /\ \A g \in GridRows(grid) :
           /\ Cardinality(ItemsAt(grid, g)) = 3
           /\ {grid[k].col : k \in ItemsAt(grid, g)} = {0, 1, 2}

\* C21: entryCount() is the number of rows below the header, each of three
\* cells; remove_entry(name_box) takes out and closes the delete button, the
\* name box and the value box of the row of name_box and nothing else: the
\* count drops by one and the other rows keep their cells, unchanged and in
\* their order.
C21_CountAndRemove ==
    [][/\ CountIsRows(entries_grid) /\ CountIsRows(entries_grid')
       /\ call'.op = "remove_entry" =>
             \E r \in DataRows(entries_grid) :
                 /\ closed' = {3 * r, 3 * r + 1, 3 * r + 2}
                 /\ detached' = {}
                 /\ entryCount(entries_grid') = entryCount(entries_grid) - 1
                 /\ Len(entries_grid') = Len(entries_grid) - 3
                 /\ \A j \in 1..Len(entries_grid') :
                        /\ origin'[j] = IF j <= 3 * r THEN j - 1 ELSE j + 2
                        /\ entries_grid'[j] = entries_grid[origin'[j] + 1]
      ]_vars

\* The upper of two rows with a name was removed
C21_Witness ==
    /\ call.op = "remove_entry"
    /\ closed = {3, 4, 5}
    /\ entryCount(entries_grid) = 1
    /\ NameOf(entries_grid, 1) # ""
    /\ origin[5] = 7

---------------------------------------------------------------------------
\* The life of a row

\* The rows after the step that hold the name box of row r before it
RowAfter(r) == {q \in DataRows(entries_grid') : origin'[3 * q + 2] = 3 * r + 1}

---------------------------------------------------------------------------
\* The order of the steps of set_box_value for a new row

\* C23: for every pair of set_box_value that gets a new row and whose name is
\* not empty, the row is added, then its name is set, and the value box the
\* name selects is in place before the value is set: the value is given to a
\* new box of that class, never to the empty widget.  If that box takes the
\* value the row holds the box with the value; if it refuses, the row holds
\* the box untouched, is the last row, and set_box_value ends with the error.
C23_ValueBoxBeforeValue ==
    [][call'.op = "set_box_value" =>
          \A q \in DataRows(entries_grid') :
              (origin'[3 * q + 2] = -1 /\ call'.arg[q].name # "") =>
                  LET cls == new_box_class(entry_types, call'.arg[q].name)
                      r == set_box_value(NewWidget(cls), call'.arg[q].value)
                  IN /\ cls # "QWidget"
                     /\ origin'[3 * q + 1] = -1 /\ origin'[3 * q + 3] = -1
                     /\ NameOf(entries_grid', q) = call'.arg[q].name
                     /\ IF r.err = "none"
                        THEN ValueBox(entries_grid', q) = r.box
                        ELSE /\ ValueBox(entries_grid', q) = NewWidget(cls)
                             /\ q = entryCount(entries_grid')
                             /\ call'.err = r.err
      ]_vars

\* set_box_value made a row for a registered name and its spin box holds the
\* value of the pair
C23_Witness ==
    /\ call.op = "set_box_value" /\ call.err = "none"
    /\ Len(call.arg) >= 1 /\ call.arg[1].name = "alpha"
    /\ origin[5] = -1
    /\ ValueBox(entries_grid, 1).cls = "QSpinBox"
    /\ get_box_value(ValueBox(entries_grid, 1), {}).val = call.arg[1].value

---------------------------------------------------------------------------
\* Cells outside the grid after set_box_value

\* C25: after a set_box_value that returns, no cell of a row is outside the
\* grid and still open: every widget that left the grid was closed, also
\* when two rows of the box had the same name and the name is in the mapping.
C25_NoOrphans ==
    (call.op = "set_box_value" /\ call.err = "none") => detached = {}

---------------------------------------------------------------------------
\* The layout of the item list

\* C24: in every state the item list is the three header labels, then for
\* each data row three consecutive items, delete button, name box and value
\* widget, in columns 0, 1, 2 of one grid row, later rows at greater grid
\* rows; so the items around the index of a name box are the cells of its
\* row, and itemAtPosition(row, 1) and (row, 2) find the row's name box and
\* value widget.
C24_LayoutInvariant ==
    /\ Len(entries_grid) % 3 = 0
    /\ \A c \in 0..2 :
           /\ itemAt(entries_grid, c).w.cls = "QLabel"
           /\ itemAt(entries_grid, c).row = 0 /\ itemAt(entries_grid, c).col = c
    /\ \A r \in DataRows(entries_grid) :
           /\ itemAt(entries_grid, 3 * r).w.cls = "QToolButton"
           /\ itemAt(entries_grid, 3 * r + 1).w.cls = "EditableComboBox"
           /\ itemAt(entries_grid, 3 * r + 2).w.cls \notin
                  {"QLabel", "QToolButton", "EditableComboBox"}
           /\ \A c \in 0..2 :
                  /\ itemAt(entries_grid, 3 * r + c).col = c
                  /\ itemAt(entries_grid, 3 * r + c).row =
                         itemAt(entries_grid, 3 * r).row
                  /\ itemAtPosition(entries_grid,
                                    itemAt(entries_grid, 3 * r).row, c) = 3 * r + c
           /\ itemAt(entries_grid, 3 * r).row > itemAt(entries_grid, 3 * r - 1).row

---------------------------------------------------------------------------
\* Rows with the same name

\* C26: a row may be given the name another row has: add_entry and an edit
\* of a name end without error, leave every row in the box and change the
\* name of at most one row.  get_box_value() that returns has every
\* name of a row once, with the value of the bottom-most row of that name.
C26_LastRowWins ==
    [][/\ call'.op \in {"add_entry", "edit_name"} =>
             /\ call'.err = "none"
             /\ entryCount(entries_grid') >= entryCount(entries_grid)
             /\ \A r \in DataRows(entries_grid) :
                    \/ NameOf(entries_grid', r) = NameOf(entries_grid, r)
                    \/ /\ call'.op = "edit_name"
                       /\ \A q \in DataRows(entries_grid) \ {r} :
                              NameOf(entries_grid', q) = NameOf(entries_grid, q)
       /\ (call'.op = "get_box_value" /\ call'.err = "none") =>
             /\ DOMAIN call'.ret =
                    {NameOf(entries_grid, r) : r \in DataRows(entries_grid)} \ {""}
             /\ \A x \in DOMAIN call'.ret :
                    call'.ret[x] =
                        get_box_value(ValueBox(entries_grid,
                                               LastRow(entries_grid, x)), {}).val
      ]_vars

\* Two rows named alpha with different values: the dict has the lower one's
C26_Witness ==
    /\ call.op = "get_box_value" /\ call.err = "none"
    /\ entryCount(entries_grid) = 2
    /\ NameOf(entries_grid, 1) = "alpha" /\ NameOf(entries_grid, 2) = "alpha"
    /\ get_box_value(ValueBox(entries_grid, 1), {}).val = IntV(5)
    /\ DOMAIN call.ret = {"alpha"}
    /\ call.ret["alpha"] = StrV("hi")

---------------------------------------------------------------------------
\* The box after a set_box_value that failed

\* C27: when set_box_value ends with the error of its k-th pair, the grid
\* holds the rows of the pairs 1..k and no other: they carry the names of
\* the pairs, those before the k-th the values too.  The rows of the box
\* before whose name is no key of the mapping were removed and closed; the
\* rows held for the pairs after the k-th are outside the grid, open, and
\* are not put back.  entry_types and banned_names are as before.
C27_PartialOnError ==
    [][(call'.op = "set_box_value" /\ call'.err # "none") =>
          LET m == call'.arg
              k == entryCount(entries_grid')
              done == {m[j].name : j \in 1..k}
          IN /\ k \in 1..Len(m)
             /\ \A j \in 1..k : NameOf(entries_grid', j) = m[j].name
             /\ \A j \in 1..(k - 1) :
                    get_box_value(ValueBox(entries_grid', j), {}).val = m[j].value
             /\ \A r \in DataRows(entries_grid) :
                    LET x == NameOf(entries_grid, r)
                        cells == {3 * r, 3 * r + 1, 3 * r + 2}
                    IN /\ x \notin Keys(m) => cells \subseteq closed'
                       /\ (x \in Keys(m) \ (done \cup banned_names \cup {""})) =>
                              /\ cells \subseteq detached'
                              /\ cells \cap closed' = {}
                              /\ \A i \in 1..Len(origin') : origin'[i] \notin cells
             /\ entry_types' = entry_types
             /\ banned_names' = banned_names
      ]_vars

\* The first pair failed on a new row while the row of the second pair, the
\* second row of the box before, was held: it stays outside the grid
C27_Witness ==
    /\ call.op = "set_box_value" /\ call.err = "NotImplementedError"
    /\ entryCount(entries_grid) = 1
    /\ NameOf(entries_grid, 1) = "alpha"
    /\ origin[5] = -1
    /\ detached = {6, 7, 8}
    /\ closed = {3, 4, 5}

---------------------------------------------------------------------------
\* connect_box

\* The connections of the widget at node c to the modified of box p
ConnectionsOf(c, p) ==
    {k \in 1..Len(connections) :
        connections[k].child = c /\ connections[k].to = p}

\* C28: the modified signal of a widget is connected to the modified of a box
\* at most once, however often connect_box is called for it and whether it
\* is made a child of the box before or after; a change of the widget makes
\* a box that is connected to it emit modified once.
C28_ConnectedOnce ==
    /\ \A p \in Composites : Cardinality(ConnectionsOf(Leaf, p)) <= 1
    /\ (event.op \in {"set", "click"} /\ Signal(Leaf).err = "none"
            /\ Signal(Leaf).val.s \in event.fired)
          => \A p \in Composites :
                 ConnectionsOf(Leaf, p) # {} => event.emitted[p] = 1

---------------------------------------------------------------------------
\* The typed emissions of a DualComboBox

\* The value of a combobox read with one type
Hinted(w, type) == IF type = "int" THEN IntV(w.index) ELSE StrV(w.text)

\* C29: the emissions of modified during an operation of a DualComboBox are
\* groups of five: the emission without types, then one emission for each of
\* (int, int), (int, str), (str, int), (str, str), in that order and no
\* other, each with the values the left and the right box have at that
\* moment, read with the two types.  No typed emission is followed by
\* another run of modified_signal_slot.
C29_FourTypedEmissions ==
    [][LET e == dual_call'.emissions
           groups == Len(e) \div 5
       IN /\ Len(e) = 5 * groups
          /\ groups <= 2
          /\ \A g \in 1..groups :
                 LET right_box == IF g < groups THEN dual.right_box
                                  ELSE dual'.right_box
                 IN /\ e[5 * g - 4] = Emission(<<>>, <<>>)
                    /\ \A t \in 1..4 :
                           /\ e[5 * g - 4 + t].sig = SlotTypes[t]
                           /\ e[5 * g - 4 + t].val =
                                  << Hinted(dual'.left_box, SlotTypes[t][1]),
                                     Hinted(right_box, SlotTypes[t][2]) >>
      ]_vars

\* set_box_value changed both boxes: two groups, the first with the right
\* box as it was, the second with the right box as it is
C29_Witness ==
    /\ dual_call.op = "set_box_value"
    /\ Len(dual_call.emissions) = 10
    /\ dual_call.emissions[3] = Emission(<<"int", "str">>, <<IntV(1), StrV("a")>>)
    /\ dual_call.emissions[8] = Emission(<<"int", "str">>, <<IntV(1), StrV("b")>>)

---------------------------------------------------------------------------
\* The actions of a DataTable plugin

\* C30: for every DataTable plugin that was made, the 'File' list of its
\* menu_actions is New, separator, Open, Import, separator, Save, Save as,
\* Save all, Export, each once and each made by that plugin, and the 'File'
\* list of its toolbar_actions is its own New, Open, Save, Save all.
C30_OwnActionsOnly ==
    \A i \in 1..Len(tab_widget) :
        /\ menu_actions(MENU_ACTIONS, i) = add_actions(<<>>, <<>>, i).MENU_ACTIONS
        /\ toolbar_actions(TOOLBAR_ACTIONS, i) =
               add_actions(<<>>, <<>>, i).TOOLBAR_ACTIONS

=============================================================================
